---- MODULE Spec2Model ----
(***************************************************************************)
(* Model of the per-device streaming state coordinator of the chat route   *)
(* (frontend/src/routes/chat.tsx, ChatComponent).                          *)
(*                                                                         *)
(* Every handler is one action.  A handler runs to completion on the       *)
(* event loop, React then re-renders and runs the effects whose            *)
(* dependencies changed, so each action ends with the two effects of the   *)
(* component (device-list refresh, screenshot polling).  A handler that    *)
(* awaits keeps the values its closure captured at the render it was       *)
(* invoked from; the continuation is a second action that reads them.      *)
(*                                                                         *)
(* The device cards (frontend/src/components/DeviceCard.tsx) are a          *)
(* component of their own, one instance per device id, with their own      *)
(* state and their own specification.                                      *)
(***************************************************************************)
EXTENDS Integers, Sequences, FiniteSets, Bags, TLC

\* ---------------------------------------------------------------- bounds
MaxOps == 8            \* handler runs of one behaviour of Spec
MaxListInFlight == 2   \* listDevices calls in flight (all but Spec)
MaxSends == 2          \* handleSend runs of SpecStream
MaxSteps == 1          \* step events of one stream in SpecStream
ManySends == 3         \* handleSend runs of SpecSends
LateSteps == 2         \* step events of one stream in SpecLate
MaxCallbacks == 2      \* Wi-Fi callbacks of one card in flight in SpecCard

\* ------------------------------------------------------------- constants
Devices == {"d1", "d2"}
NoDevice == ""                       \* useState<string>('')
Null == "null"                       \* null of a string-valued field
NoStream == 0                        \* currentStream: null
NoShot == 0                          \* screenshot: null
Images == {1}                        \* payloads of a successful getScreenshot
Rosters == {<< >>, <<"d1", "d2">>}   \* listDevices responses
Gaps == {0, 1, 2}                    \* milliseconds between two handleSend runs
TaskText == "open camera"            \* what the user types
InitErr == "init failed"             \* error.message of a rejected initAgent
StreamErr == "stream error"          \* event.message of an error event
DoneMsg == "Done"                    \* event.message of a done event
ResetErr == "reset failed"           \* error.message of a rejected resetChat
ConnectionTypes == {"usb", "remote"} \* the connectionType prop of a card

VARIABLES
    devices,              \* useState<Device[]>: ids of the roster, in order
    currentDeviceId,      \* useState<string>
    deviceStates,         \* useState<Map<string, DeviceState>>
    input,                \* useState('') of the text box
    screenshotFetchingRef,\* useRef(false)
    currentThinkingRef,   \* useRef<string[]>([])
    currentActionsRef,    \* useRef<any[]>([])
    now,                  \* Date.now()
    streams,              \* the streams sendMessageStream has opened
    pendingInit,          \* bag of initAgent calls in flight, with their closures
    listInFlight,         \* listDevices calls in flight, by captured !currentDeviceId
    shotInFlight,         \* getScreenshot calls in flight, by captured currentDeviceId
    pollTimers,           \* live setInterval(fetchScreenshot, 500), by captured id
    resetChatCall,        \* the promise of the first resetChat call, when followed
    cards,                \* the DeviceCard instances, by the id prop
    opsLeft               \* handler runs left to the behaviour; negative: no limit

vars == <<devices, currentDeviceId, deviceStates, input, screenshotFetchingRef,
          currentThinkingRef, currentActionsRef, now, streams, pendingInit,
          listInFlight, shotInFlight, pollTimers, resetChatCall, cards,
          opsLeft>>

\* --------------------------------------------------------- the data model
DefaultState ==
    [messages |-> << >>, loading |-> FALSE, error |-> Null,
     initialized |-> FALSE, currentStream |-> NoStream, screenshot |-> NoShot,
     useVideoStream |-> TRUE, videoStreamFailed |-> FALSE,
     displayMode |-> "auto", tapFeedback |-> Null]

\* deviceStates.get(id) || { ...defaults }
Get(ds, id) == IF id \in DOMAIN ds THEN ds[id] ELSE DefaultState

getCurrentDeviceState == Get(deviceStates, currentDeviceId)

\* { ...currentState, ...updates }
Merge(cur, upd) ==
    [f \in DOMAIN cur |-> IF f \in DOMAIN upd THEN upd[f] ELSE cur[f]]

\* faulty variant: new Map() in place of new Map(prev)
updateDeviceStateFresh(ds, deviceId, updates) ==
    [k \in {deviceId} |-> Merge(Get(ds, deviceId), updates)]

updateDeviceState(ds, deviceId, updates) ==
    [k \in DOMAIN ds \cup {deviceId} |->
        IF k = deviceId THEN Merge(Get(ds, deviceId), updates) ELSE ds[k]]

\* Message ids are Date.now().toString(); decimal printing is injective and
\* ids are only compared for equality, so the number stands for the string.
UserMessage(id, text) ==
    [id |-> id, role |-> "user", content |-> text, steps |-> 0,
     success |-> "undefined", thinking |-> << >>, actions |-> << >>,
     isStreaming |-> FALSE]

AgentMessage(id) ==
    [id |-> id, role |-> "agent", content |-> "", steps |-> 0,
     success |-> "undefined", thinking |-> << >>, actions |-> << >>,
     isStreaming |-> TRUE]

\* state.messages.map(msg => msg.id === id ? f(msg) : msg)
MapMessages(msgs, id, patch) ==
    [i \in 1..Len(msgs) |->
        IF msgs[i].id = id THEN Merge(msgs[i], patch) ELSE msgs[i]]

\* payloads of the k-th step event of stream s
ThinkingOf(s, k) == 10 * s + k
ActionOf(s, k) == 100 + 10 * s + k

\* ------------------------------------------------------- derived display
shouldPollScreenshots(st) ==
    \/ st.displayMode = "screenshot"
    \/ (st.displayMode = "auto" /\ st.videoStreamFailed)

\* the condition under which ScrcpyPlayer is rendered
LiveView(cur, st) ==
    /\ cur # NoDevice
    /\ \/ st.displayMode = "video"
       \/ (st.displayMode = "auto" /\ st.useVideoStream /\ ~st.videoStreamFailed)

\* faulty variant: displayMode left out of the dependency list
PollDepsNoMode(cur, ds) == <<cur, Get(ds, cur).videoStreamFailed>>

\* the dependency list of the polling effect
PollDeps(cur, ds) ==
    <<cur, Get(ds, cur).videoStreamFailed, Get(ds, cur).displayMode>>

PollOn(cur, ds) == cur # NoDevice /\ shouldPollScreenshots(Get(ds, cur))

Total(f) ==
    LET RECURSIVE Sum(_)
        Sum(S) == IF S = {} THEN 0
                  ELSE LET x == CHOOSE y \in S : TRUE IN f[x] + Sum(S \ {x})
    IN Sum(DOMAIN f)

Inc(f, k) == [f EXCEPT ![k] = @ + 1]
Dec(f, k) == [f EXCEPT ![k] = @ - 1]

\* faulty variant: no in-flight guard
FetchStartUnguarded(ref, sif, d) == Inc(sif, d)

\* fetchScreenshot up to the await: skipped while a request is in flight
FetchStart(ref, sif, d) == IF ref THEN sif ELSE Inc(sif, d)

\* the finally block of fetchScreenshot, whatever the outcome was
FetchRelease(outcome) == FALSE

\* ---------------------------------------------------------------- effects
\* useEffect(..., [currentDeviceId]): on a change the old interval is
\* cleared and loadDevices() is called at once with the new closure.
LoadDevicesEffect(cur2, lif) ==
    listInFlight' = IF cur2 # currentDeviceId THEN Inc(lif, cur2 = NoDevice) ELSE lif

\* useEffect(..., [currentDeviceId, videoStreamFailed, displayMode]): on a
\* change the cleanup clears the interval the previous run created; the new
\* run returns early without a device or outside screenshot mode, else calls
\* fetchScreenshot() at once and creates the interval.
PollEffect(cur2, ds2, ref, sif) ==
    IF PollDeps(cur2, ds2) = PollDeps(currentDeviceId, deviceStates)
    THEN /\ pollTimers' = pollTimers
         /\ screenshotFetchingRef' = ref
         /\ shotInFlight' = sif
    ELSE LET cleared == IF PollOn(currentDeviceId, deviceStates)
                        THEN Dec(pollTimers, currentDeviceId) ELSE pollTimers
         IN IF PollOn(cur2, ds2)
            THEN /\ pollTimers' = Inc(cleared, cur2)
                 /\ screenshotFetchingRef' = TRUE
                 /\ shotInFlight' = FetchStart(ref, sif, cur2)
            ELSE /\ pollTimers' = cleared
                 /\ screenshotFetchingRef' = ref
                 /\ shotInFlight' = sif

\* one handler run is taken from the behaviour's allowance
Burn == opsLeft # 0 /\ opsLeft' = IF opsLeft < 0 THEN opsLeft ELSE opsLeft - 1

\* commit of a render: the new selection and store, then both effects
Commit(cur2, ds2, ref, sif, lif) ==
    /\ Burn
    /\ currentDeviceId' = cur2
    /\ deviceStates' = ds2
    /\ LoadDevicesEffect(cur2, lif)
    /\ PollEffect(cur2, ds2, ref, sif)

\* a commit that touches only the store
CommitStore(ds2) ==
    Commit(currentDeviceId, ds2, screenshotFetchingRef, shotInFlight, listInFlight)

\* ------------------------------------------------------------------- Init
Mounted ==
    /\ devices = << >>
    /\ currentDeviceId = NoDevice
    /\ deviceStates = [k \in {} |-> DefaultState]
    /\ input = ""
    /\ screenshotFetchingRef = FALSE
    /\ currentThinkingRef = << >>
    /\ currentActionsRef = << >>
    /\ now = 0
    /\ streams = << >>
    /\ pendingInit = EmptyBag
    \* the mount runs loadDevices() once; the polling effect returns early
    /\ listInFlight = [none \in BOOLEAN |-> IF none THEN 1 ELSE 0]
    /\ shotInFlight = [k \in Devices |-> 0]
    /\ pollTimers = [k \in Devices |-> 0]

\* no resetChat call has been made
NoCall == [dev |-> NoDevice, status |-> "none"]

\* the outcome of resetChat, which no handler reads, is not followed
Unfollowed == [dev |-> NoDevice, status |-> "unfollowed"]

\* the state of a DeviceCard after its first render: the connectionType it
\* was given, its three useState values, the onConnectWifi and
\* onDisconnectWifi promises in flight and how the last one settled
DeviceCardState(connectionType) ==
    [connectionType |-> connectionType, loading |-> FALSE,
     showWifiConfirm |-> FALSE, showDisconnectConfirm |-> FALSE,
     connecting |-> 0, disconnecting |-> 0, settled |-> "none"]

\* one card per device, all of them USB devices
UsbCards == [d \in Devices |-> DeviceCardState("usb")]

\* behaviours of at most MaxOps handler runs
Init == Mounted /\ opsLeft = MaxOps /\ resetChatCall = NoCall /\ cards = UsbCards

\* behaviours of any length
InitFree ==
    Mounted /\ opsLeft = 0 - 1 /\ resetChatCall = Unfollowed /\ cards = UsbCards

\* behaviours of any length in which the first resetChat call is followed
InitReset ==
    Mounted /\ opsLeft = 0 - 1 /\ resetChatCall = NoCall /\ cards = UsbCards

\* the chat route as mounted and one card per device, of either connection
\* type; the card keeps the connectionType it was created with
InitCard ==
    /\ Mounted /\ opsLeft = 0 - 1 /\ resetChatCall = Unfollowed
    /\ cards \in [Devices -> {DeviceCardState(c) : c \in ConnectionTypes}]

\* ------------------------------------------------------------ device list
\* setInterval(loadDevices, 3000) fires: listDevices() is called
loadDevicesTick ==
    /\ listInFlight' = Inc(listInFlight, currentDeviceId = NoDevice)
    /\ Burn
    /\ UNCHANGED <<devices, currentDeviceId, deviceStates, input,
                   screenshotFetchingRef, currentThinkingRef, currentActionsRef,
                   now, streams, pendingInit, shotInFlight, pollTimers,
                   resetChatCall, cards>>

\* the selection loadDevices writes: none is true when the closure's
\* currentDeviceId is ''
loadDevicesSelect(roster, none, cur) ==
    IF Len(roster) > 0 /\ none THEN roster[1] ELSE cur

\* listDevices() resolves in a call whose closure has !currentDeviceId = c
loadDevicesDone(c, roster) ==
    /\ listInFlight[c] > 0
    /\ devices' = roster
    /\ Commit(loadDevicesSelect(roster, c, currentDeviceId),
              deviceStates, screenshotFetchingRef, shotInFlight, Dec(listInFlight, c))
    /\ UNCHANGED <<input, currentThinkingRef, currentActionsRef, now, streams,
                   pendingInit, resetChatCall, cards>>

\* listDevices() rejects: console.error only
loadDevicesFail(c) ==
    /\ listInFlight[c] > 0
    /\ listInFlight' = Dec(listInFlight, c)
    /\ Burn
    /\ UNCHANGED <<devices, currentDeviceId, deviceStates, input,
                   screenshotFetchingRef, currentThinkingRef, currentActionsRef,
                   now, streams, pendingInit, shotInFlight, pollTimers,
                   resetChatCall, cards>>

\* -------------------------------------------------------------- streams
\* sendMessageStream(text, deviceId, onStep, onDone, onError) returns a
\* handle; the transport delivers events of an open stream only, a done or
\* error event is its last one, close() stops delivery.  event is the
\* terminal event the stream has delivered.
OpenStream(dev, agentMessageId) ==
    [dev |-> dev, agentMessageId |-> agentMessageId, status |-> "open", sent |-> 0,
     event |-> "none"]

\* a done event with event.success = success
DoneEvent(success) == IF success THEN "done: success" ELSE "done: failure"

Close(ss, h) ==
    IF h \in DOMAIN ss /\ ss[h].status = "open"
    THEN [ss EXCEPT ![h].status = "closed"] ELSE ss

\* the setDeviceStates(prev => ...) of the onStep callback
onStepStore(ds, dev, agentMessageId, thinking, actions, step) ==
    IF dev \notin DOMAIN ds THEN ds
    ELSE [ds EXCEPT ![dev].messages =
            MapMessages(@, agentMessageId,
                        [thinking |-> thinking, actions |-> actions, steps |-> step])]

\* the setDeviceStates(prev => ...) of the onDone callback
onDoneStore(ds, dev, agentMessageId, message, success) ==
    IF dev \notin DOMAIN ds THEN ds
    ELSE [ds EXCEPT ![dev] =
            Merge(@, [messages |-> MapMessages(@.messages, agentMessageId,
                                     [content |-> message,
                                      success |-> IF success THEN "true" ELSE "false",
                                      isStreaming |-> FALSE]),
                      loading |-> FALSE, currentStream |-> NoStream])]

\* `错误: ${event.message}`
FormatError(message) ==
    IF message = StreamErr THEN "error: stream error" ELSE "error: ?"

\* faulty variant: the error event handled like a done event, the device's
\* error left as it is
onErrorStoreNoError(ds, dev, agentMessageId, message) ==
    IF dev \notin DOMAIN ds THEN ds
    ELSE [ds EXCEPT ![dev] =
            Merge(@, [messages |-> MapMessages(@.messages, agentMessageId,
                                     [content |-> FormatError(message),
                                      success |-> "false",
                                      isStreaming |-> FALSE]),
                      loading |-> FALSE, currentStream |-> NoStream])]

\* the setDeviceStates(prev => ...) of the onError callback
onErrorStore(ds, dev, agentMessageId, message) ==
    IF dev \notin DOMAIN ds THEN ds
    ELSE [ds EXCEPT ![dev] =
            Merge(@, [messages |-> MapMessages(@.messages, agentMessageId,
                                     [content |-> FormatError(message),
                                      success |-> "false",
                                      isStreaming |-> FALSE]),
                      loading |-> FALSE, currentStream |-> NoStream,
                      error |-> message])]

\* the onStep callback of stream s runs for its next step event
StepDelivered(s) ==
    LET k == streams[s].sent + 1
        th == Append(currentThinkingRef, ThinkingOf(s, k))
        ac == Append(currentActionsRef, ActionOf(s, k))
    IN /\ currentThinkingRef' = th
       /\ currentActionsRef' = ac
       /\ streams' = [streams EXCEPT ![s].sent = k]
       /\ CommitStore(onStepStore(deviceStates, streams[s].dev,
                                  streams[s].agentMessageId, th, ac, k))
       /\ UNCHANGED <<devices, input, now, pendingInit, resetChatCall, cards>>

onStep(s) ==
    /\ s \in DOMAIN streams
    /\ streams[s].status = "open"
    /\ StepDelivered(s)

onDone(s, success) ==
    /\ s \in DOMAIN streams
    /\ streams[s].status = "open"
    /\ streams' = [streams EXCEPT ![s].status = "ended",
                                  ![s].event = DoneEvent(success)]
    /\ CommitStore(onDoneStore(deviceStates, streams[s].dev,
                               streams[s].agentMessageId, DoneMsg, success))
    /\ UNCHANGED <<devices, input, currentThinkingRef, currentActionsRef, now,
                   pendingInit, resetChatCall, cards>>

onError(s) ==
    /\ s \in DOMAIN streams
    /\ streams[s].status = "open"
    /\ streams' = [streams EXCEPT ![s].status = "ended", ![s].event = "error"]
    /\ CommitStore(onErrorStore(deviceStates, streams[s].dev,
                                streams[s].agentMessageId, StreamErr))
    /\ UNCHANGED <<devices, input, currentThinkingRef, currentActionsRef, now,
                   pendingInit, resetChatCall, cards>>

\* a step event that the transport delivers after the done or error event
lateStep(s) ==
    /\ s \in DOMAIN streams
    /\ streams[s].status = "ended"
    /\ StepDelivered(s)

\* ------------------------------------------------------------ init / send
\* the continuation of handleInit(deviceId) after initAgent settled
handleInitStore(ds, deviceId, ok) ==
    IF ok THEN updateDeviceState(ds, deviceId, [initialized |-> TRUE, error |-> Null])
    ELSE updateDeviceState(ds, deviceId, [error |-> InitErr])

\* handleSend from `const userMessage` on: the three store updates, with
\* the closure's deviceId and messages; t1, t2 are the two Date.now() reads
SendStore(ds, deviceId, msgs, text, t1, t2, stream) ==
    LET userMessage == UserMessage(t1, text)
        agentMessage == AgentMessage(t2 + 1)
        ds1 == updateDeviceState(ds, deviceId,
                   [messages |-> Append(msgs, userMessage),
                    loading |-> TRUE, error |-> Null])
        ds2 == updateDeviceState(ds1, deviceId,
                   [messages |-> msgs \o <<userMessage, agentMessage>>])
    IN updateDeviceState(ds2, deviceId, [currentStream |-> stream])

SendsPending ==
    Total([e \in {x \in DOMAIN pendingInit : x.kind = "send"} |-> pendingInit[e]])

InitsPending ==
    Total([e \in {x \in DOMAIN pendingInit : x.kind = "init"} |-> pendingInit[e]])

PendingSend(dev, msgs, text) ==
    [kind |-> "send", dev |-> dev, msgs |-> msgs, text |-> text]

PendingInitOnly(dev) ==
    [kind |-> "init", dev |-> dev, msgs |-> << >>, text |-> ""]

\* the part of handleSend after the optional await, for closure (dev, msgs, text)
\* g is the time since the previous Date.now() read; the two reads of one
\* run fall in the same millisecond
SendBody(ds, dev, msgs, text, g) ==
    LET h == Len(streams) + 1
        t == now + g
    IN /\ now' = t
       /\ input' = ""
       /\ currentThinkingRef' = << >>
       /\ currentActionsRef' = << >>
       /\ streams' = Append(streams, OpenStream(dev, t + 1))
       /\ CommitStore(SendStore(ds, dev, msgs, text, t, t, h))

\* handleSend on an initialized device: runs to its end without suspending
handleSend(g) ==
    LET cs == getCurrentDeviceState
    IN /\ input # "" /\ ~cs.loading
       /\ currentDeviceId # NoDevice
       /\ cs.initialized
       /\ SendBody(deviceStates, currentDeviceId, cs.messages, input, g)
       /\ UNCHANGED <<devices, pendingInit, resetChatCall, cards>>

\* handleSend on a device that is not initialized: suspends in handleInit
handleSendAwaitInit ==
    LET cs == getCurrentDeviceState
    IN /\ input # "" /\ ~cs.loading
       /\ currentDeviceId # NoDevice
       /\ ~cs.initialized
       /\ pendingInit' = pendingInit (+)
                           SetToBag({PendingSend(currentDeviceId, cs.messages, input)})
       /\ Burn
       /\ UNCHANGED <<devices, currentDeviceId, deviceStates, input,
                      screenshotFetchingRef, currentThinkingRef, currentActionsRef,
                      now, streams, listInFlight, shotInFlight, pollTimers,
                      resetChatCall, cards>>

\* initAgent settles for a suspended handleSend: handleInit finishes, then
\* handleSend goes on whatever the outcome was
handleSendResume(p, ok, g) ==
    /\ BagIn(p, pendingInit) /\ p.kind = "send"
    /\ pendingInit' = pendingInit (-) SetToBag({p})
    /\ SendBody(handleInitStore(deviceStates, p.dev, ok), p.dev, p.msgs, p.text, g)
    /\ UNCHANGED <<devices, resetChatCall, cards>>

\* the init button or the config dialog calls handleInit(currentDeviceId)
handleInit ==
    /\ currentDeviceId # NoDevice
    /\ pendingInit' = pendingInit (+) SetToBag({PendingInitOnly(currentDeviceId)})
    /\ Burn
    /\ UNCHANGED <<devices, currentDeviceId, deviceStates, input,
                   screenshotFetchingRef, currentThinkingRef, currentActionsRef,
                   now, streams, listInFlight, shotInFlight, pollTimers,
                   resetChatCall, cards>>

handleInitDone(p, ok) ==
    /\ BagIn(p, pendingInit) /\ p.kind = "init"
    /\ pendingInit' = pendingInit (-) SetToBag({p})
    /\ CommitStore(handleInitStore(deviceStates, p.dev, ok))
    /\ UNCHANGED <<devices, input, currentThinkingRef, currentActionsRef, now,
                   streams, resetChatCall, cards>>

\* ------------------------------------------------------- reset and switch
\* faulty variant: reset puts the whole record back to its defaults
handleResetStoreDefaults(ds, deviceId) ==
    [k \in DOMAIN ds \cup {deviceId} |-> IF k = deviceId THEN DefaultState ELSE ds[k]]

handleResetStore(ds, deviceId) ==
    updateDeviceState(ds, deviceId,
        [messages |-> << >>, loading |-> FALSE, error |-> Null,
         currentStream |-> NoStream])

\* handleReset up to await resetChat(currentDeviceId), its last statement
handleReset ==
    /\ currentDeviceId # NoDevice
    /\ streams' = Close(streams, getCurrentDeviceState.currentStream)
    /\ CommitStore(handleResetStore(deviceStates, currentDeviceId))
    /\ resetChatCall' = IF resetChatCall = NoCall
                        THEN [dev |-> currentDeviceId, status |-> "pending"]
                        ELSE resetChatCall
    /\ UNCHANGED <<devices, input, currentThinkingRef, currentActionsRef, now,
                   pendingInit, cards>>

\* what handleReset does to the store once resetChat has settled: the await
\* is not in a try block and no statement follows it
resetChatSettledStore(ds, deviceId, ok) == ds

\* resetChat settles: handleReset returns, or its promise rejects unhandled
resetChatSettled(ok) ==
    /\ resetChatCall.status = "pending"
    /\ resetChatCall' = [resetChatCall EXCEPT
                            !.status = IF ok THEN "fulfilled" ELSE "rejected"]
    /\ CommitStore(resetChatSettledStore(deviceStates, resetChatCall.dev, ok))
    /\ UNCHANGED <<devices, input, currentThinkingRef, currentActionsRef, now,
                   streams, pendingInit, cards>>

handleDeviceChangeStore(ds, cur, cs) ==
    IF cs.currentStream # NoStream
    THEN updateDeviceState(ds, cur, [currentStream |-> NoStream]) ELSE ds

\* the select offers '' and the ids of the roster
handleDeviceChange(deviceId) ==
    /\ deviceId \in {NoDevice} \cup {devices[i] : i \in 1..Len(devices)}
    /\ deviceId # currentDeviceId
    /\ streams' = Close(streams, getCurrentDeviceState.currentStream)
    /\ Commit(deviceId,
              handleDeviceChangeStore(deviceStates, currentDeviceId,
                                      getCurrentDeviceState),
              screenshotFetchingRef, shotInFlight, listInFlight)
    /\ UNCHANGED <<devices, input, currentThinkingRef, currentActionsRef, now,
                   pendingInit, resetChatCall, cards>>

\* ------------------------------------------------------------ display mode
\* the three mode buttons, rendered when a device is selected
setDisplayMode(m) ==
    /\ currentDeviceId # NoDevice
    /\ CommitStore(updateDeviceState(deviceStates, currentDeviceId,
                                     [displayMode |-> m]))
    /\ UNCHANGED <<devices, input, currentThinkingRef, currentActionsRef, now,
                   streams, pendingInit, resetChatCall, cards>>

\* faulty variant: the fallback turns useVideoStream off and leaves
\* videoStreamFailed as it is
onFallbackStoreNoFlag(ds, deviceId) ==
    updateDeviceState(ds, deviceId, [useVideoStream |-> FALSE])

\* faulty variant: the fallback sets videoStreamFailed and leaves
\* useVideoStream as it is
onFallbackStoreKeepUse(ds, deviceId) ==
    updateDeviceState(ds, deviceId, [videoStreamFailed |-> TRUE])

onFallbackStore(ds, deviceId) ==
    updateDeviceState(ds, deviceId,
        [videoStreamFailed |-> TRUE, useVideoStream |-> FALSE])

\* ScrcpyPlayer, while it is rendered, reports that video is unusable
onFallback ==
    /\ LiveView(currentDeviceId, getCurrentDeviceState)
    /\ CommitStore(onFallbackStore(deviceStates, currentDeviceId))
    /\ UNCHANGED <<devices, input, currentThinkingRef, currentActionsRef, now,
                   streams, pendingInit, resetChatCall, cards>>

\* ------------------------------------------------------ screenshot polling
\* the interval created for device d fires
fetchScreenshotTick(d) ==
    /\ pollTimers[d] > 0
    /\ screenshotFetchingRef' = TRUE
    /\ shotInFlight' = FetchStart(screenshotFetchingRef, shotInFlight, d)
    /\ Burn
    /\ UNCHANGED <<devices, currentDeviceId, deviceStates, input,
                   currentThinkingRef, currentActionsRef, now, streams,
                   pendingInit, listInFlight, pollTimers, resetChatCall, cards>>

\* faulty variant: the result goes to the device selected when it arrives
fetchScreenshotStoreSelected(ds, deviceId, outcome, data) ==
    IF outcome = "success" /\ currentDeviceId # NoDevice
    THEN updateDeviceState(ds, currentDeviceId, [screenshot |-> data])
    ELSE ds

\* faulty variant: a failed fetch clears the screenshot
fetchScreenshotStoreClear(ds, deviceId, outcome, data) ==
    IF outcome = "success" THEN updateDeviceState(ds, deviceId, [screenshot |-> data])
    ELSE updateDeviceState(ds, deviceId, [screenshot |-> NoShot])

fetchScreenshotStore(ds, deviceId, outcome, data) ==
    IF outcome = "success" THEN updateDeviceState(ds, deviceId, [screenshot |-> data])
    ELSE ds

\* getScreenshot settles in the call made for device d
fetchScreenshotDone(d, outcome, data) ==
    /\ shotInFlight[d] > 0
    /\ Commit(currentDeviceId,
              fetchScreenshotStore(deviceStates, d, outcome, data),
              FetchRelease(outcome), Dec(shotInFlight, d), listInFlight)
    /\ UNCHANGED <<devices, input, currentThinkingRef, currentActionsRef, now,
                   streams, pendingInit, resetChatCall, cards>>

\* ------------------------------------------------------------ device card
\* the variables of the chat route, which no handler of a card touches
chatVars == <<devices, currentDeviceId, deviceStates, input, screenshotFetchingRef,
              currentThinkingRef, currentActionsRef, now, streams, pendingInit,
              listInFlight, shotInFlight, pollTimers, resetChatCall, opsLeft>>

\* the callbacks of a card that have not settled
Pending(card) == card.connecting + card.disconnecting

handleWifiClickStore(card) ==
    IF card.loading THEN card ELSE [card EXCEPT !.showWifiConfirm = TRUE]

\* the Wi-Fi button, rendered for a USB device and disabled while loading
handleWifiClick(id) ==
    /\ cards[id].connectionType = "usb"
    /\ ~cards[id].loading
    /\ cards' = [cards EXCEPT ![id] = handleWifiClickStore(@)]
    /\ UNCHANGED chatVars

handleDisconnectClickStore(card) ==
    IF card.loading THEN card ELSE [card EXCEPT !.showDisconnectConfirm = TRUE]

\* the disconnect button, rendered for a remote device and disabled while
\* loading
handleDisconnectClick(id) ==
    /\ cards[id].connectionType = "remote"
    /\ ~cards[id].loading
    /\ cards' = [cards EXCEPT ![id] = handleDisconnectClickStore(@)]
    /\ UNCHANGED chatVars

\* onCancel of the two confirmation dialogs
cancelWifi(id) ==
    /\ cards[id].showWifiConfirm
    /\ cards' = [cards EXCEPT ![id].showWifiConfirm = FALSE]
    /\ UNCHANGED chatVars

cancelDisconnect(id) ==
    /\ cards[id].showDisconnectConfirm
    /\ cards' = [cards EXCEPT ![id].showDisconnectConfirm = FALSE]
    /\ UNCHANGED chatVars

\* handleConfirmWifi up to await onConnectWifi()
handleConfirmWifi(id) ==
    /\ cards[id].showWifiConfirm
    /\ Pending(cards[id]) < MaxCallbacks
    /\ cards' = [cards EXCEPT ![id].showWifiConfirm = FALSE,
                              ![id].loading = TRUE,
                              ![id].connecting = @ + 1]
    /\ UNCHANGED chatVars

\* handleConfirmDisconnect up to await onDisconnectWifi()
handleConfirmDisconnect(id) ==
    /\ cards[id].showDisconnectConfirm
    /\ Pending(cards[id]) < MaxCallbacks
    /\ cards' = [cards EXCEPT ![id].showDisconnectConfirm = FALSE,
                              ![id].loading = TRUE,
                              ![id].disconnecting = @ + 1]
    /\ UNCHANGED chatVars

\* faulty variant: setLoading(false) after the await, not in a finally block
confirmSettledStoreNoFinally(card, ok) ==
    [card EXCEPT !.loading = IF ok THEN FALSE ELSE @,
                 !.settled = IF ok THEN "fulfilled" ELSE "rejected"]

\* the finally block of handleConfirmWifi and handleConfirmDisconnect
confirmSettledStore(card, ok) ==
    [card EXCEPT !.loading = FALSE,
                 !.settled = IF ok THEN "fulfilled" ELSE "rejected"]

\* onConnectWifi() settles
connectWifiSettled(id, ok) ==
    /\ cards[id].connecting > 0
    /\ cards' = [cards EXCEPT ![id] =
                    confirmSettledStore([@ EXCEPT !.connecting = @ - 1], ok)]
    /\ UNCHANGED chatVars

\* onDisconnectWifi() settles
disconnectWifiSettled(id, ok) ==
    /\ cards[id].disconnecting > 0
    /\ cards' = [cards EXCEPT ![id] =
                    confirmSettledStore([@ EXCEPT !.disconnecting = @ - 1], ok)]
    /\ UNCHANGED chatVars

\* ------------------------------------------------------------ environment
typeInput ==
    /\ currentDeviceId # NoDevice
    /\ ~getCurrentDeviceState.loading
    /\ input = ""
    /\ input' = TaskText
    /\ Burn
    /\ UNCHANGED <<devices, currentDeviceId, deviceStates, screenshotFetchingRef,
                   currentThinkingRef, currentActionsRef, now, streams,
                   pendingInit, listInFlight, shotInFlight, pollTimers,
                   resetChatCall, cards>>

\* ------------------------------------------------------------- budgets
SendBudget(n) == Len(streams) + SendsPending < n
StepBudget(s, n) == s \in DOMAIN streams /\ streams[s].sent < n
InitBudget(n) == InitsPending < n
ListBudget(n) == Total(listInFlight) < n

\* ---------------------------------------------------- groups of handlers
\* the roster responses and the device select
RosterActions(maxList) ==
    \/ \E c \in BOOLEAN, r \in Rosters : loadDevicesDone(c, r)
    \/ \E c \in BOOLEAN : loadDevicesFail(c)
    \/ ListBudget(maxList) /\ \E d \in Devices \cup {NoDevice} : handleDeviceChange(d)

\* the 3 s interval of the roster refresh
RosterTick(maxList) == ListBudget(maxList) /\ loadDevicesTick

\* the text box, the send button and the reset button
SendActions(maxSends, gaps) ==
    \/ SendBudget(maxSends) /\ \E g \in gaps : handleSend(g)
    \/ SendBudget(maxSends) /\ handleSendAwaitInit
    \/ \E p \in DOMAIN pendingInit, ok \in BOOLEAN, g \in gaps :
          handleSendResume(p, ok, g)
    \/ handleReset
    \/ typeInput

\* the step events of the open streams
StepActions(maxSteps) ==
    \E s \in DOMAIN streams : StepBudget(s, maxSteps) /\ onStep(s)

\* the terminal events of the open streams
EndActions ==
    \/ \E s \in DOMAIN streams, success \in BOOLEAN : onDone(s, success)
    \/ \E s \in DOMAIN streams : onError(s)

\* the init button and the config dialog
InitActions(maxInits) ==
    \/ InitBudget(maxInits) /\ handleInit
    \/ \E p \in DOMAIN pendingInit, ok \in BOOLEAN : handleInitDone(p, ok)

\* the outcome of the resetChat call that is followed
ResetActions == \E ok \in BOOLEAN : resetChatSettled(ok)

\* the mode buttons, the video player and the screenshot polling
DisplayActions ==
    \/ \E m \in {"auto", "video", "screenshot"} : setDisplayMode(m)
    \/ onFallback
    \/ \E d \in Devices : fetchScreenshotTick(d)
    \/ \E d \in Devices, o \in {"success", "failure", "throw"}, img \in Images :
          fetchScreenshotDone(d, o, img)

\* --------------------------------------------------------- specifications
\* The whole component: every handler, every behaviour of at most MaxOps
\* handler runs (MaxOps is the only limit: the budgets are never reached).
Next ==
    \/ RosterActions(MaxOps + 1)
    \/ RosterTick(MaxOps + 1)
    \/ SendActions(MaxOps, Gaps)
    \/ StepActions(MaxOps)
    \/ EndActions
    \/ InitActions(MaxOps)
    \/ ResetActions
    \/ DisplayActions

Spec == Init /\ [][Next]_vars

\* The roster, the sends (in the same millisecond or 2 ms apart) and the
\* stream events, behaviours of any length.
\* The display handlers, which write displayMode, videoStreamFailed,
\* useVideoStream and screenshot only, fields no handler of this
\* specification reads, do not run.
NextStream ==
    \/ RosterActions(MaxListInFlight)
    \/ SendActions(MaxSends, {0, 2})
    \/ StepActions(MaxSteps)
    \/ EndActions

SpecStream == InitFree /\ [][NextStream]_vars

\* One send, on a device the init button may have initialized before, whose
\* transport goes on delivering step events after the done or error event.
NextLate ==
    \/ RosterActions(MaxListInFlight)
    \/ SendActions(1, Gaps)
    \/ InitActions(1)
    \/ StepActions(LateSteps)
    \/ EndActions
    \/ \E s \in DOMAIN streams : StepBudget(s, LateSteps) /\ lateStep(s)

SpecLate == InitFree /\ [][NextLate]_vars

\* More sends, at least 2 ms apart, whose streams deliver no step event.
NextSends ==
    \/ RosterActions(1)
    \/ SendActions(ManySends, {2})
    \/ EndActions

SpecSends == InitFree /\ [][NextSends]_vars

\* The roster and its refresh, the mode buttons, the video player and the
\* screenshot polling, behaviours of any length; no send runs.
NextDisplay ==
    \/ RosterActions(MaxListInFlight)
    \/ RosterTick(MaxListInFlight)
    \/ DisplayActions

SpecDisplay == InitFree /\ [][NextDisplay]_vars

\* One send, on a device the init button may have initialized before, and
\* the reset button, with the outcome of the first resetChat call,
\* behaviours of any length.
NextReset ==
    \/ RosterActions(1)
    \/ SendActions(1, {2})
    \/ InitActions(1)
    \/ StepActions(MaxSteps)
    \/ EndActions
    \/ ResetActions

SpecReset == InitReset /\ [][NextReset]_vars

\* The device cards: the two buttons, the two confirmation dialogs and the
\* outcomes of the callbacks, behaviours of any length; the chat route stays
\* as mounted.
NextCard ==
    \/ \E id \in Devices : handleWifiClick(id)
    \/ \E id \in Devices : handleDisconnectClick(id)
    \/ \E id \in Devices : cancelWifi(id)
    \/ \E id \in Devices : cancelDisconnect(id)
    \/ \E id \in Devices : handleConfirmWifi(id)
    \/ \E id \in Devices : handleConfirmDisconnect(id)
    \/ \E id \in Devices, ok \in BOOLEAN : connectWifiSettled(id, ok)
    \/ \E id \in Devices, ok \in BOOLEAN : disconnectWifiSettled(id, ok)

SpecCard == InitCard /\ [][NextCard]_vars

\* ----------------------------------------------------------------- claims
\* the entry of device d in the store: << >> when the map has no entry
Entry(ds, d) == IF d \in DOMAIN ds THEN <<ds[d]>> ELSE << >>

OpenStreams(d) ==
    {s \in DOMAIN streams : streams[s].dev = d /\ streams[s].status = "open"}

\* the thinking / action values stream s has delivered, in order
DeliveredThinking(s) == [k \in 1..streams[s].sent |-> ThinkingOf(s, k)]
DeliveredActions(s) == [k \in 1..streams[s].sent |-> ActionOf(s, k)]

\* the placeholder messages of send s in the store
Placeholders(s) ==
    LET msgs == Get(deviceStates, streams[s].dev).messages
    IN {i \in 1..Len(msgs) :
           msgs[i].id = streams[s].agentMessageId /\ msgs[i].role = "agent"}

\* no other send to the same device drew the same message id
OwnId(s) ==
    \A t \in DOMAIN streams :
        t # s /\ streams[t].dev = streams[s].dev
            => streams[t].agentMessageId # streams[s].agentMessageId

\* a loadDevices call settles in this step
LoadDevicesSettles == \E c \in BOOLEAN : listInFlight'[c] < listInFlight[c]

\* the user picks another entry of the device select in this step
UserSwitches ==
    /\ currentDeviceId' # currentDeviceId
    /\ ~LoadDevicesSettles

\* handleReset runs in this step on a device that has messages
UserResets ==
    /\ currentDeviceId' = currentDeviceId
    /\ Get(deviceStates, currentDeviceId).messages # << >>
    /\ Get(deviceStates', currentDeviceId).messages = << >>

\* C1: in every step at most one device's record changes: an operation
\* that updates A's record leaves the record of every B # A as it was
\* (also absent, when the map had no entry for B).
C1_Isolation ==
    [][\A a, b \in Devices :
          (a # b /\ Entry(deviceStates', a) # Entry(deviceStates, a))
              => Entry(deviceStates', b) = Entry(deviceStates, b)]_vars

\* C1 witness: a step event has been folded into a message of one device
\* while another device has a record that differs from the defaults.
C1_Witness ==
    \E a, b \in DOMAIN deviceStates :
        /\ a # b
        /\ deviceStates[b] # DefaultState
        /\ \E i \in 1..Len(deviceStates[a].messages) :
               deviceStates[a].messages[i].thinking # << >>

\* C2: the placeholder message of a send holds, in order, exactly the
\* thinking and action values its own stream delivered.
C2_StepsAreOwn ==
    \A s \in DOMAIN streams :
        OwnId(s) =>
            \A i \in Placeholders(s) :
                LET m == Get(deviceStates, streams[s].dev).messages[i]
                IN m.thinking = DeliveredThinking(s) /\ m.actions = DeliveredActions(s)

\* C3: the done or error event leaves the placeholder message with
\* isStreaming = false and the device with loading = false, and a step event
\* delivered after it changes nothing in the store.
C3_TerminalIsFinal ==
    [][\A s \in DOMAIN streams :
          /\ (streams[s].status = "open" /\ streams'[s].status = "ended")
                => /\ ~Get(deviceStates', streams[s].dev).loading
                   /\ \A i \in 1..Len(Get(deviceStates', streams[s].dev).messages) :
                         LET m == Get(deviceStates', streams[s].dev).messages[i]
                         IN m.id = streams[s].agentMessageId => ~m.isStreaming
          /\ (streams[s].status = "ended" /\ streams'[s].sent > streams[s].sent)
                => deviceStates' = deviceStates]_vars

\* C4: a device switch or a reset made while the selected device has an
\* open stream closes that stream and leaves the device's currentStream
\* null, and a closed stream delivers nothing more.
C4_SwitchClosesStream ==
    [][/\ (UserSwitches \/ UserResets) =>
            /\ \A s \in OpenStreams(currentDeviceId) : streams'[s].status = "closed"
            /\ Get(deviceStates', currentDeviceId).currentStream = NoStream
       /\ \A s \in DOMAIN streams :
            streams[s].status = "closed" => streams'[s] = streams[s]]_vars

\* C5: a device never has two open streams.
C5_OneStreamPerDevice == \A d \in Devices : Cardinality(OpenStreams(d)) <= 1

\* C6: a device's messages never hold two messages with isStreaming = true.
C6_OneStreamingMessage ==
    \A d \in DOMAIN deviceStates :
        Cardinality({i \in 1..Len(deviceStates[d].messages) :
                        deviceStates[d].messages[i].isStreaming}) <= 1

\* C7: a loadDevices call that settles while a device is selected leaves
\* the selection as it is.
C7_RefreshKeepsSelection ==
    [][(LoadDevicesSettles /\ currentDeviceId # NoDevice)
          => currentDeviceId' = currentDeviceId]_vars

\* C8: once videoStreamFailed is true for a device no step sets it back to
\* false, and a device with the flag set and displayMode auto is in
\* screenshot mode: it polls screenshots and shows no live view.
C8_FailedIsLatched ==
    /\ [][\A d \in DOMAIN deviceStates :
             deviceStates[d].videoStreamFailed
                 => d \in DOMAIN deviceStates' /\ deviceStates'[d].videoStreamFailed]_vars
    /\ [](\A d \in DOMAIN deviceStates :
             (deviceStates[d].videoStreamFailed /\ deviceStates[d].displayMode = "auto")
                 => /\ shouldPollScreenshots(deviceStates[d])
                    /\ ~LiveView(d, deviceStates[d]))

\* C8 witness: the flag is set on a device whose mode is screenshot; the
\* player reports a failure only while it is shown, so the user switched
\* the mode after the flag was set.
C8_Witness ==
    \E d \in DOMAIN deviceStates :
        deviceStates[d].videoStreamFailed /\ deviceStates[d].displayMode = "screenshot"

\* C9: at most one getScreenshot call is in flight, and the guard is set
\* exactly while one is.
C9_OneFetchInFlight ==
    /\ Total(shotInFlight) <= 1
    /\ screenshotFetchingRef <=> Total(shotInFlight) = 1

\* C9 witness: a fetch for a device is pending while its interval is live
\* (the next tick finds the guard set), after an earlier fetch for it stored
\* a screenshot and released the guard.
C9_Witness ==
    \E d \in DOMAIN deviceStates :
        /\ pollTimers[d] > 0
        /\ shotInFlight[d] = 1
        /\ deviceStates[d].screenshot # NoShot

\* C10: there is at most one polling interval, and device d has one exactly
\* when d is selected and its effective mode is screenshot.
C10_TimerIffScreenshotMode ==
    /\ Total(pollTimers) <= 1
    /\ \A d \in Devices :
          pollTimers[d] = 1 <=>
              (currentDeviceId = d /\ shouldPollScreenshots(Get(deviceStates, d)))

\* C10 witness: the selected device polls while another device, whose mode
\* is screenshot too, has no interval: the switch cleared it.
C10_Witness ==
    \E a, b \in Devices :
        /\ a # b
        /\ currentDeviceId = a
        /\ pollTimers[a] = 1
        /\ shouldPollScreenshots(Get(deviceStates, b))
        /\ pollTimers[b] = 0

\* the effective mode of the selected device becomes screenshot in this step
BecomesScreenshot ==
    /\ PollOn(currentDeviceId', deviceStates')
    /\ (~PollOn(currentDeviceId, deviceStates) \/ currentDeviceId' # currentDeviceId)

\* C11: when the effective mode of the selected device becomes screenshot, a
\* getScreenshot request for that device is in flight at once, before any
\* tick of the interval.
C11_ImmediateFetch ==
    [][BecomesScreenshot => shotInFlight'[currentDeviceId'] >= 1]_vars

\* a handleSend run stores its updates for device d in this step
SendStores(d) ==
    /\ Len(streams') = Len(streams) + 1
    /\ streams'[Len(streams')].dev = d

\* the fields no update of handleSend names, apart from initialized, which
\* the awaited handleInit writes
SendFrame == {"screenshot", "useVideoStream", "videoStreamFailed", "displayMode",
              "tapFeedback"}

\* C12: the updates of a send are merged into the latest record of the
\* device: the record keeps everything the other updates left in it (the
\* messages as they are, with what the stream callbacks wrote into them, and
\* the fields the send does not name) and gains the two new messages.
C12_NoLostUpdate ==
    [][\A d \in Devices :
          SendStores(d) =>
              LET old == Get(deviceStates, d)
                  new == Get(deviceStates', d)
              IN /\ new.messages = old.messages \o
                        <<UserMessage(now', TaskText), AgentMessage(now' + 1)>>
                 /\ \A f \in SendFrame : new[f] = old[f]]_vars

\* the ids of a message list, in order
Ids(msgs) == [i \in 1..Len(msgs) |-> msgs[i].id]

\* C13: apart from a reset of the selected device, a step leaves the ids of
\* a device's messages as they are, or, when a send stores its updates,
\* appends the id of the user message and then the id of the placeholder
\* agent message.
C13_AppendOnly ==
    [][\A d \in Devices :
          LET old == Get(deviceStates, d).messages
              new == Get(deviceStates', d).messages
          IN IF SendStores(d)
             THEN /\ Ids(new) = Ids(old) \o <<now', now' + 1>>
                  /\ new[Len(new) - 1].role = "user"
                  /\ new[Len(new)].role = "agent"
             ELSE \/ Ids(new) = Ids(old)
                  \/ (d = currentDeviceId /\ d = currentDeviceId' /\ new = << >>)]_vars

\* C14: a device with loading = true has a send in flight: one of its
\* streams is open.
C14_LoadingHasStream ==
    \A d \in DOMAIN deviceStates :
        deviceStates[d].loading => OpenStreams(d) # {}

\* the resetChat call that is followed rejects in this step
ResetChatRejects ==
    resetChatCall.status = "pending" /\ resetChatCall'.status = "rejected"

\* C15: when resetChat rejects, the error string of its device is set to
\* the failure and the step changes nothing else in the record.
C15_ResetFailureSurfaced ==
    [][ResetChatRejects =>
          LET d == resetChatCall.dev
          IN Get(deviceStates', d) =
                 Merge(Get(deviceStates, d), [error |-> ResetErr])]_vars

\* an initAgent call settles in this step
InitAgentSettles ==
    \E p \in DOMAIN pendingInit : CopiesIn(p, pendingInit') < CopiesIn(p, pendingInit)

\* C16: a step in which an initAgent call settles issues no new initAgent
\* call, and unless it leaves the device initialized (the call succeeded) it
\* sets the device's error to the failure message and changes no other
\* field of its record, which is what handleInit stores for a failed call.
C16_InitFailureKeepsState ==
    /\ [](\A d \in Devices :
             Get(handleInitStore(deviceStates, d, FALSE), d) =
                 Merge(Get(deviceStates, d), [error |-> InitErr]))
    /\ [][InitAgentSettles =>
             /\ \A q \in DOMAIN pendingInit' :
                    CopiesIn(q, pendingInit') <= CopiesIn(q, pendingInit)
             /\ \A p \in DOMAIN pendingInit :
                    CopiesIn(p, pendingInit') < CopiesIn(p, pendingInit)
                        => LET old == Get(deviceStates, p.dev)
                               new == Get(deviceStates', p.dev)
                           IN \/ new.initialized
                              \/ new = Merge(old, [error |-> InitErr])]_vars

\* the done event of stream s is delivered in this step
DoneDelivered(s) ==
    streams[s].event = "none" /\ streams'[s].event \in {"done: success", "done: failure"}

\* C17: the done event of a send stores event.message as the content and
\* event.success as the success of its placeholder message, with
\* isStreaming = false, and loading = false and currentStream = null on the
\* device, and nothing else; the placeholder then holds as many thinking and
\* action entries as its stream delivered step events.
C17_DoneFinishesMessage ==
    [][\A s \in DOMAIN streams :
          DoneDelivered(s) =>
              LET old == Get(deviceStates, streams[s].dev)
                  new == Get(deviceStates', streams[s].dev)
                  patch == [content |-> DoneMsg,
                            success |-> IF streams'[s].event = "done: success"
                                        THEN "true" ELSE "false",
                            isStreaming |-> FALSE]
              IN /\ new = Merge(old, [messages |->
                               [i \in 1..Len(old.messages) |->
                                   IF old.messages[i].id = streams[s].agentMessageId
                                   THEN Merge(old.messages[i], patch)
                                   ELSE old.messages[i]],
                            loading |-> FALSE, currentStream |-> NoStream])
                 /\ OwnId(s) =>
                        \A i \in Placeholders(s) :
                            /\ Len(new.messages[i].thinking) = streams[s].sent
                            /\ Len(new.messages[i].actions) = streams[s].sent]_vars

\* the error event of stream s is delivered in this step
ErrorDelivered(s) == streams[s].event = "none" /\ streams'[s].event = "error"

HandleResetRuns ==
    \/ UserResets
    \/ (resetChatCall = NoCall /\ resetChatCall' # NoCall)

\* C19: handleReset leaves the selected device with messages = [],
\* loading = false, error = null and currentStream = null and every other
\* field as it was, and no stream of the device is open after it.
C19_ResetClearsSend ==
    [][HandleResetRuns =>
          LET d == currentDeviceId
          IN /\ Get(deviceStates', d) =
                    Merge(Get(deviceStates, d),
                          [messages |-> << >>, loading |-> FALSE, error |-> Null,
                           currentStream |-> NoStream])
             /\ \A s \in DOMAIN streams' :
                    streams'[s].dev = d => streams'[s].status # "open"]_vars

\* the effective mode as a function of the preference and the failure flag
EffectiveMode(displayMode, videoStreamFailed) ==
    CASE displayMode = "video" -> "video"
      [] displayMode = "screenshot" -> "screenshot"
      [] OTHER -> IF videoStreamFailed THEN "screenshot" ELSE "video"

\* C20: for the selected device the live view is rendered exactly when the
\* effective mode is video, screenshots are polled exactly when it is
\* screenshot, and so exactly one of the two holds.
C20_ModeDecisions ==
    currentDeviceId # NoDevice =>
        LET st == getCurrentDeviceState
            mode == EffectiveMode(st.displayMode, st.videoStreamFailed)
        IN /\ LiveView(currentDeviceId, st) <=> mode = "video"
           /\ shouldPollScreenshots(st) <=> mode = "screenshot"
           /\ PollOn(currentDeviceId, deviceStates) <=> mode = "screenshot"
           /\ LiveView(currentDeviceId, st) <=> ~shouldPollScreenshots(st)

\* C20 witness: the selected device fell back to screenshots and the user
\* then chose video: the live view is back although the failure flag is set.
C20_Witness ==
    /\ currentDeviceId # NoDevice
    /\ getCurrentDeviceState.displayMode = "video"
    /\ getCurrentDeviceState.videoStreamFailed
    /\ ~getCurrentDeviceState.useVideoStream
    /\ getCurrentDeviceState.screenshot # NoShot

\* a getScreenshot call settles in this step
FetchSettles == \E d \in Devices : shotInFlight'[d] < shotInFlight[d]

\* C21: a getScreenshot call that throws or answers success = false leaves
\* the store as it is (the screenshot and the error of the device stay): the
\* step in which a call settles changes no error and clears no screenshot,
\* releases the guard and keeps the interval, so that the next tick of a
\* live interval issues a new call.
C21_FailedFetchTolerated ==
    /\ [](\A d \in Devices, o \in {"failure", "throw"}, img \in Images :
             fetchScreenshotStore(deviceStates, d, o, img) = deviceStates)
    /\ [][FetchSettles =>
             /\ ~screenshotFetchingRef'
             /\ pollTimers' = pollTimers
             /\ \A d \in Devices :
                    /\ Get(deviceStates', d).error = Get(deviceStates, d).error
                    /\ Get(deviceStates', d).screenshot
                           \in {Get(deviceStates, d).screenshot} \cup Images
             /\ \A d \in Devices :
                    pollTimers'[d] > 0 =>
                        FetchStart(screenshotFetchingRef', shotInFlight', d)[d]
                            = shotInFlight'[d] + 1]_vars

\* C21 witness: an interval is live and the guard is free, so a call has
\* settled, and no device has a screenshot, so every call that settled
\* failed: the next tick issues a new one.
C21_Witness ==
    /\ \E d \in Devices : pollTimers[d] > 0 /\ currentDeviceId = d
    /\ ~screenshotFetchingRef
    /\ Total(shotInFlight) = 0
    /\ \A e \in Devices : Get(deviceStates, e).screenshot = NoShot

\* the ids handleSend gave the two messages of send s: Date.now() for the
\* user message, Date.now() + 1 for the placeholder
SendIds(s) == {streams[s].agentMessageId - 1, streams[s].agentMessageId}

\* a step event of stream s is delivered in this step
StepEvent(s) == streams'[s].sent > streams[s].sent

\* C22: the message ids of two sends to one device are disjoint, and a step
\* event changes, in the messages of its device, the placeholder message of
\* its own send only: the list keeps its length and every message that is
\* not the agent message with the send's id stays as it was.
C22_StepTouchesOwnMessage ==
    /\ [](\A s, t \in DOMAIN streams :
             (s # t /\ streams[s].dev = streams[t].dev)
                 => SendIds(s) \cap SendIds(t) = {})
    /\ [][\A s \in DOMAIN streams :
             StepEvent(s) =>
                 LET old == Get(deviceStates, streams[s].dev).messages
                     new == Get(deviceStates', streams[s].dev).messages
                 IN /\ Len(new) = Len(old)
                    /\ \A i \in 1..Len(old) :
                           new[i] # old[i] =>
                               /\ old[i].role = "agent"
                               /\ old[i].id = streams[s].agentMessageId]_vars

\* the handleSend run that stores its updates in this step was invoked while
\* device d was selected: it ran without suspending, or it is the
\* continuation of a run whose closure holds d
InvokedOn(d) ==
    IF pendingInit' = pendingInit THEN currentDeviceId = d
    ELSE \E p \in DOMAIN pendingInit :
             /\ p.kind = "send" /\ p.dev = d
             /\ CopiesIn(p, pendingInit') < CopiesIn(p, pendingInit)

\* C23: a stream is opened for the device that was selected when its
\* handleSend was invoked, and a device that is not selected has no open
\* stream and a null currentStream.
C23_StreamOnSelectedDevice ==
    /\ [][\A d \in Devices : SendStores(d) => InvokedOn(d)]_vars
    /\ [](\A d \in Devices :
             d # currentDeviceId =>
                 /\ OpenStreams(d) = {}
                 /\ Get(deviceStates, d).currentStream = NoStream)

\* the initAgent call of a handleSend run suspended on device d settles in
\* this step
SendInitSettles(d) ==
    \E p \in DOMAIN pendingInit :
        /\ p.kind = "send" /\ p.dev = d
        /\ CopiesIn(p, pendingInit') < CopiesIn(p, pendingInit)

\* C24: a send opens its stream for an initialized device only, and when
\* the initAgent call of a send fails (the device is left uninitialized) the
\* step appends no message, opens no stream and leaves the failure in the
\* device's error.
C24_StreamNeedsInit ==
    [][\A d \in Devices :
          /\ SendStores(d) => Get(deviceStates', d).initialized
          /\ (SendInitSettles(d) /\ ~Get(deviceStates', d).initialized)
                => /\ Get(deviceStates', d).messages = Get(deviceStates, d).messages
                   /\ streams' = streams
                   /\ Get(deviceStates', d).error = InitErr]_vars

\* C25: a device whose currentStream is not null has loading = true, and
\* the handle in currentStream is that of the one open stream of the device.
C25_HandleIsTheOpenStream ==
    \A d \in Devices :
        LET st == Get(deviceStates, d)
        IN st.currentStream # NoStream =>
               /\ st.loading
               /\ OpenStreams(d) = {st.currentStream}

\* C26: the step in which the getScreenshot call made for device d settles
\* leaves the record of d as it was or stores an image in its screenshot
\* field, and leaves the entry of every other device as it was, whichever
\* device is selected and whatever the display mode is by then.
C26_ResultToRequester ==
    [][\A d \in Devices :
          shotInFlight'[d] < shotInFlight[d] =>
              /\ \/ Entry(deviceStates', d) = Entry(deviceStates, d)
                 \/ \E img \in Images :
                        Get(deviceStates', d) =
                            Merge(Get(deviceStates, d), [screenshot |-> img])
              /\ \A e \in Devices \ {d} :
                     Entry(deviceStates', e) = Entry(deviceStates, e)]_vars

\* C26 witness: a device that is no longer selected, and whose mode is no
\* longer screenshot, holds a screenshot, while the selected device polls
\* with the guard free and has none.
C26_Witness ==
    \E a, b \in Devices :
        /\ a # b
        /\ currentDeviceId = a
        /\ pollTimers[a] = 1
        /\ ~screenshotFetchingRef
        /\ Get(deviceStates, a).screenshot = NoShot
        /\ Get(deviceStates, b).screenshot # NoShot
        /\ ~shouldPollScreenshots(Get(deviceStates, b))

\* C27: for every device useVideoStream is the negation of
\* videoStreamFailed, so the live-view condition is the one without its
\* useVideoStream conjunct.
C27_UseIsNotFailed ==
    \A d \in Devices :
        LET st == Get(deviceStates, d)
        IN /\ st.useVideoStream <=> ~st.videoStreamFailed
           /\ LiveView(d, st) <=>
                  \/ st.displayMode = "video"
                  \/ (st.displayMode = "auto" /\ ~st.videoStreamFailed)

\* C27 witness: the player of one device fell back while the device was in
\* auto mode, and another device has a record in which no fallback happened.
C27_Witness ==
    \E a, b \in DOMAIN deviceStates :
        /\ a # b
        /\ deviceStates[a].displayMode = "auto"
        /\ deviceStates[a].videoStreamFailed /\ ~deviceStates[a].useVideoStream
        /\ ~deviceStates[b].videoStreamFailed /\ deviceStates[b].useVideoStream

\* a callback of card id settles in this step
CallbackSettles(id) == Pending(cards'[id]) < Pending(cards[id])

\* a confirmation dialog of card id opens in this step
DialogOpens(id) ==
    \/ ~cards[id].showWifiConfirm /\ cards'[id].showWifiConfirm
    \/ ~cards[id].showDisconnectConfirm /\ cards'[id].showDisconnectConfirm

\* C28: the loading flag of a card is true exactly while one of its
\* callbacks is pending, at most one is, the step in which it settles,
\* fulfilled or rejected, leaves loading false, and no dialog of the card
\* is open or opens while loading is true.
C28_CardLoading ==
    /\ [](\A id \in Devices :
             /\ cards[id].loading <=> Pending(cards[id]) > 0
             /\ Pending(cards[id]) <= 1
             /\ cards[id].loading =>
                    ~cards[id].showWifiConfirm /\ ~cards[id].showDisconnectConfirm)
    /\ [][\A id \in Devices :
             /\ CallbackSettles(id) => ~cards'[id].loading
             /\ cards[id].loading => ~DialogOpens(id)]_vars

\* C28 witness: the callback of a card rejected and the card went back to
\* loading = false; its dialog is open again while the callback of another
\* card is pending.
C28_Witness ==
    \E a, b \in Devices :
        /\ a # b
        /\ cards[a].settled = "rejected" /\ ~cards[a].loading
        /\ Pending(cards[a]) = 0
        /\ cards[a].showWifiConfirm \/ cards[a].showDisconnectConfirm
        /\ cards[b].loading /\ Pending(cards[b]) = 1
====
